---- MODULE Spec2Model ----
(***************************************************************************)
(* Model of ws_base.py: the request/response protocol of ClientBase and    *)
(* ServerBase over a named-event transport (python-socketio).              *)
(*                                                                         *)
(* Strings that the code cuts or extends (event names) are sequences of    *)
(* one-character strings, so that  event + '_rsp'  and  value[:-4]  are    *)
(* computed as the code computes them.  A dict on the wire is a record     *)
(* with the set of its keys; a payload value is a record [kind, v].        *)
(*                                                                         *)
(* Specifications: Spec (one client and the server, calls in any order),   *)
(* SpecWire (Spec with peers that emit raw payloads), SpecSeq and          *)
(* SpecCallers (the client used by one thread sequentially, by two         *)
(* threads), SpecServer and SpecServerFair (ServerBase construction with   *)
(* its certificate files, start() and close()).                            *)
(***************************************************************************)
EXTENDS Integers, Sequences, FiniteSets, TLC

\* ------------------------------------------------------------------ bounds
MaxMsg == 2          \* messages put on the wire in one behaviour
MaxConnect == 2      \* connection attempts of one client
MaxServers == 2      \* ServerBase objects constructed in one behaviour

\* --------------------------------------------------------------- universe
Clients == {"c1"}               \* ClientBase instances
Peers == {"p1"}                 \* other sessions of the server, seen from the server
ServerKeys == {"k"}                \* auth_key the server is configured with
AuthTokens == {"None", "k", "x"}   \* auth_data of a client; None is the default
ServerUrl == "wss://h:1"
Urls == {ServerUrl, "wss://x:2"}
NoUrl == "None"

Events == {<<"a">>}                \* names of the handler functions / events
OtherEvents == {<<"b">>}           \* an event name no handler is registered for
NoneEvent == <<"None">>            \* the Python value None in an event field

NoData == [kind |-> "none", v |-> <<>>]
IntData == [kind |-> "int", v |-> <<"7">>]
ListData == [kind |-> "list", v |-> <<"1", "2">>]
DictData == [kind |-> "dict", v |-> <<"k", "1">>]
ModelData == [kind |-> "serializable", v |-> <<"Point", "1", "2">>]
HandlerData == {IntData, ListData, DictData, ModelData}
RequestData == {ModelData}

\* exception classes a handler can raise: a domain error known to the client,
\* an Exception the client does not know, a BaseException that is no Exception
DomainErrors == {"DomainError"}
OtherErrors == {"ValueError"}
BaseOnlyErrors == {"GreenletExit"}
Messages == {"boom"}

\* the server's configuration and the files of its certificate
Hostnames == {"h", "g"}            \* hostname a ServerBase is constructed with
NoPath == "None"                   \* certfile_path = keyfile_path = None: no TLS
CertPath == "cert.pem"             \* certfile_path; keyfile_path is set with it
NoError == "None"                  \* exc = None

\* the content of a file; id tells one generated key pair from another
NoFile == [kind |-> "absent", san |-> {}, id |-> 0]
JunkFile == [kind |-> "junk", san |-> {}, id |-> 0]
NoSanCert == [kind |-> "cert_nosan", san |-> {}, id |-> 0]
KeyFile == [kind |-> "key", san |-> {}, id |-> 0]
CertFiles ==
    {NoFile, JunkFile, NoSanCert}
    \cup {[kind |-> "cert", san |-> names, id |-> 0] : names \in SUBSET Hostnames}
KeyFiles == {NoFile, KeyFile}

\* ------------------------------------------------------------ Status, names
SUCCESS == "success"
ERROR == "error"

get_req_event(event) == event \o <<"_", "r", "e", "q">>

get_rsp_event(event) == event \o <<"_", "r", "s", "p">>

\* value[:-4] of a Python string
Strip4(s) == SubSeq(s, 1, Len(s) - 4)

\* SerializableDataClass.to_json / SerializableBaseModel.to_json: a JSON text
to_json(d) == [kind |-> "str", v |-> <<"json">> \o d.v]

IsSerializable(d) == d.kind = "serializable"

\* ------------------------------------------------------------- envelopes
\* A dict: the set of its keys and the values under them (a value under an
\* absent key is ignored).
Dict(keys, status, event, data) ==
    [keys |-> keys, status |-> status, event |-> event, data |-> data]

NoRsp == [ok |-> FALSE, status |-> "", event |-> <<>>, data |-> NoData]

\* Req.to_dict
Req_to_dict(event, data) ==
    IF IsSerializable(data)
    THEN Dict({"event", "data"}, "", event, to_json(data))
    ELSE Dict({"event", "data"}, "", event, data)

\* Req.from_dict: cls(**d); TypeError (ok = FALSE) when the required event is
\* missing or a key is no field of Req
Req_from_dict(d) ==
    IF "event" \in d.keys /\ d.keys \subseteq {"event", "data"}
    THEN [ok |-> TRUE, event |-> d.event,
          data |-> IF "data" \in d.keys THEN d.data ELSE NoData]
    ELSE [ok |-> FALSE, event |-> <<>>, data |-> NoData]

\* Rsp.to_dict, never calling to_json
Rsp_to_dict_asdict(r) ==
    Dict({"status", "event", "data"}, r.status, r.event, r.data)

\* Rsp.to_dict
Rsp_to_dict(r) ==
    IF IsSerializable(r.data)
    THEN Dict({"status", "event", "data"}, r.status, r.event, to_json(r.data))
    ELSE Dict({"status", "event", "data"}, r.status, r.event, r.data)

\* Rsp.from_dict: cls(**d); status is required, event and data default to None
Rsp_from_dict(d) ==
    IF "status" \in d.keys /\ d.keys \subseteq {"status", "event", "data"}
    THEN [ok |-> TRUE, status |-> d.status,
          event |-> IF "event" \in d.keys THEN d.event ELSE NoneEvent,
          data |-> IF "data" \in d.keys THEN d.data ELSE NoData]
    ELSE NoRsp

\* SerializableException(name, message, tb).to_dict(); tb is
\* traceback.format_exc(), a text that names the error
TracebackOf(name, message) == <<"Traceback", name, message>>

ExceptionDict(name, message) ==
    [kind |-> "exception", v |-> <<name, message>> \o TracebackOf(name, message)]

\* ------------------------------------------------------------------ state
VARIABLES
    auth_key,      \* ServerBase.auth_key
    sessions,      \* sids the server's connect handler admitted and that are open
    auth_data,     \* ClientBase.auth_data, per client
    server_url,    \* ClientBase._server_url
    sio,           \* ClientBase.sio: 0 is None, n > 0 the n-th socketio.Client made
    sioConnected,  \* sio.connected, the transport's own flag
    cliHandlers,   \* names whose <name>_rsp handler is registered on sio
    rsp,           \* ClientBase.rsp, the pending-response slot
    rsp_event,     \* ClientBase.rsp_event, the wake signal (threading.Event)
    pc,            \* where the client's calling thread is inside _get_response
    hpc,           \* where the thread that runs the handle_response wrapper is
    toServer,      \* request events on the wire
    toClient,      \* response events on the wire
    nmsg,          \* messages put on the wire so far
    attempts,      \* sio.connect calls of a client so far
    sioCount,      \* socketio.Client objects a client made so far
    regCount,      \* runs of connection_callbacks(); callbacks() of a client
    handled,       \* ghost: the run of a handle_request wrapper in the last step
    result,        \* ghost: the API call of a client that ended in the last step
    hostname,      \* ServerBase.hostname
    certfile_path, \* ServerBase.certfile_path (and keyfile_path)
    generate_cert, \* the generate_cert argument of ServerBase.__init__
    certfile,      \* the file at certfile_path
    keyfile,       \* the file at keyfile_path
    nservers,      \* ServerBase.__init__ runs so far
    built,         \* whether the last ServerBase.__init__ returned an object
    server,        \* ServerBase.server: "None" or the WSGIServer object
    listening,     \* server.started, the listener's own flag
    stopping,      \* server.close() was called and the listener has not stopped
    tpc,           \* where the start_server thread is
    exc,           \* the exc of start(), written by the start_server thread
    spc,           \* where the caller of start() / close() is
    sresult,       \* ghost: the ServerBase call that ended in the last step
    waiting,       \* ghost: the request a caller issued and has not waited for
    getter,        \* ghost: the caller that is inside _get_response
    ret,           \* ghost: how the last _get_response of a caller ended
    arrived,       \* ghost: the requests whose Response was put in self.rsp
    expired        \* ghost: the requests whose _get_response timed out

serverVars == <<hostname, certfile_path, generate_cert, certfile, keyfile, nservers,
                built, server, listening, stopping, tpc, exc, spc, sresult>>

protocolVars == <<auth_key, sessions, auth_data, server_url, sio, sioConnected,
                  cliHandlers, rsp, rsp_event, pc, hpc, toServer, toClient, nmsg,
                  attempts, sioCount, regCount, handled, result>>

callerVars == <<waiting, getter, ret, arrived, expired>>

vars == <<protocolVars, serverVars, callerVars>>

clientVars == <<server_url, sio, sioConnected, cliHandlers, rsp, rsp_event, pc, hpc,
                attempts, sioCount, regCount>>

NoOutcome == [kind |-> "", cls |-> "", msg |-> "", data |-> NoData]

\* ghost carried by a response: the number, the session and the event of the
\* request it answers and how the handler ended ("" when no handler made it)
NoOrigin == [rid |-> 0, sid |-> "", event |-> <<>>, outcome |-> NoOutcome]

\* self.rsp = None; keys is a ghost, the keys of the payload the Rsp was
\* decoded from
NoneRsp == [status |-> "None", event |-> <<>>, data |-> NoData, keys |-> {},
            origin |-> NoOrigin]

NoExc == [cls |-> "", message |-> <<>>, tb |-> <<>>, event |-> <<>>]

\* st: "" when no wrapper ran in the last step, else how the run ended;
\* chan: the channel the request came on; keys: the keys of the request
\* payload; emits: the <<to, channel>> of each event it emitted
NoHandled == [st |-> "", sid |-> "", chan |-> <<>>, keys |-> {}, event |-> <<>>,
              emits |-> <<>>]

\* op(arg) was called with connected = pre and ended as out: "return", or the
\* name of the error raised ("raise" with the error in exc, for the errors
\* verify_response builds); rsp is the Rsp that _get_response returned
Result(op, arg, out, pre, r, e) ==
    [op |-> op, arg |-> arg, out |-> out, pre |-> pre, rsp |-> r, exc |-> e]

NoResult == Result("", "", "", FALSE, NoneRsp, NoExc)

\* the step is no call of the client API: no call has just ended
NoCallEnds == result' = [c \in Clients |-> NoResult]

\* the step is no run of a handle_request wrapper
NoHandlerRuns == handled' = NoHandled

\* a ServerBase call op ended as out: "return" or the name of the error raised
SResult(op, out) == [op |-> op, out |-> out]

NoSResult == SResult("", "")

\* the step is no end of a ServerBase call
NoServerCallEnds == sresult' = NoSResult

\* a ServerBase constructed for ServerUrl with a certificate for its hostname,
\* after start() returned
ServerRunning ==
    /\ hostname = "h"
    /\ certfile_path = CertPath
    /\ generate_cert = TRUE
    /\ certfile = [kind |-> "cert", san |-> {"h"}, id |-> 1]
    /\ keyfile = [KeyFile EXCEPT !.id = 1]
    /\ nservers = 1
    /\ built = TRUE
    /\ server = "obj"
    /\ listening = TRUE
    /\ stopping = FALSE
    /\ tpc = "serving"
    /\ exc = NoError
    /\ spc = "idle"
    /\ sresult = NoSResult

\* no ServerBase constructed yet; the files are what the environment left
NoServer ==
    /\ hostname = "h"
    /\ certfile_path = NoPath
    /\ generate_cert = FALSE
    /\ certfile \in CertFiles
    /\ keyfile \in KeyFiles
    /\ nservers = 0
    /\ built = FALSE
    /\ server = "None"
    /\ listening = FALSE
    /\ stopping = FALSE
    /\ tpc = "none"
    /\ exc = NoError
    /\ spc = "idle"
    /\ sresult = NoSResult

\* ClientBase.__init__ (is_autoconnect = False), and the auth_key of
\* ServerBase.__init__
ClientInit ==
    /\ auth_key \in ServerKeys
    /\ auth_data \in [Clients -> AuthTokens]
    /\ sessions = {}
    /\ server_url = [c \in Clients |-> ServerUrl]
    /\ sio = [c \in Clients |-> 0]
    /\ sioConnected = [c \in Clients |-> FALSE]
    /\ cliHandlers = [c \in Clients |-> {}]
    /\ rsp = [c \in Clients |-> NoneRsp]
    /\ rsp_event = [c \in Clients |-> FALSE]
    /\ pc = [c \in Clients |-> "idle"]
    /\ hpc = [c \in Clients |-> "idle"]
    /\ toServer = {}
    /\ toClient = {}
    /\ nmsg = 0
    /\ attempts = [c \in Clients |-> 0]
    /\ sioCount = [c \in Clients |-> 0]
    /\ regCount = [c \in Clients |-> 0]
    /\ handled = NoHandled
    /\ result = [c \in Clients |-> NoResult]

\* the callers of the client API: no call made yet
Callers == {"t1", "t2"}

NoCaller == "-"

NoRet == [req |-> 0, rsp |-> 0, out |-> ""]

NoCalls ==
    /\ waiting = [k \in Callers |-> 0]
    /\ getter = [c \in Clients |-> NoCaller]
    /\ ret = [k \in Callers |-> NoRet]
    /\ arrived = {}
    /\ expired = {}

\* the clients constructed, the server started
Init == ClientInit /\ ServerRunning /\ NoCalls

\* the clients constructed, no server constructed
InitServer == ClientInit /\ NoServer /\ NoCalls

\* ------------------------------------------------------------- the client
\* ClientBase.connected
connected(c) == sio[c] # 0 /\ sioConnected[c]

\* ClientBase.callbacks: the user's handle_response() functions
ClientCallbacks == Events

\* ServerBase.callbacks: the user's handle_request() functions
ServerCallbacks == Events

\* the connect handler of ServerBase.connection_callbacks, admitting everyone
ConnectGate_open(auth) == TRUE

\* the connect handler of ServerBase.connection_callbacks: TRUE when it returns,
\* FALSE when it raises ConnectionRefusedError
ConnectGate(auth) == auth = auth_key

\* the closing of a session: what is on the wire for it is lost
CloseSession(c) ==
    /\ sessions' = sessions \ {c}
    /\ toServer' = {m \in toServer : m.sid # c}
    /\ toClient' = {m \in toClient : m.to # c}

\* _connect with the url stored before the connected test
connect_url_first(c, url, reach) ==
    IF ~connected(c)
    THEN LET target == IF url # NoUrl THEN url ELSE server_url[c]
             accepted == reach /\ target = ServerUrl /\ ConnectGate(auth_data[c])
         IN /\ sio' = [sio EXCEPT ![c] = IF @ = 0 THEN sioCount[c] + 1 ELSE @]
            /\ sioCount' = [sioCount EXCEPT ![c] = IF sio[c] = 0 THEN @ + 1 ELSE @]
            /\ regCount' = [regCount EXCEPT ![c] = IF sio[c] = 0 THEN @ + 1 ELSE @]
            /\ cliHandlers' = [cliHandlers EXCEPT
                                 ![c] = IF sio[c] = 0 THEN ClientCallbacks ELSE @]
            /\ server_url' = [server_url EXCEPT ![c] = target]
            /\ attempts' = [attempts EXCEPT ![c] = @ + 1]
            /\ sioConnected' = [sioConnected EXCEPT ![c] = accepted]
            /\ sessions' = IF accepted THEN sessions \cup {c} ELSE sessions
            /\ result' = [[x \in Clients |-> NoResult] EXCEPT ![c] =
                   Result("connect", url,
                          IF accepted THEN "return" ELSE "ConnectionError",
                          FALSE, NoneRsp, NoExc)]
    ELSE /\ server_url' = [server_url EXCEPT ![c] = IF url # NoUrl THEN url ELSE @]
         /\ UNCHANGED <<sio, sioCount, regCount, cliHandlers, attempts, sioConnected,
                        sessions>>
         /\ result' = [[x \in Clients |-> NoResult] EXCEPT ![c] =
                Result("connect", url, "return", TRUE, NoneRsp, NoExc)]

\* _connect that runs connection_callbacks() and callbacks() for the first
\* socketio.Client only
connect_register_once(c, url, reach) ==
    IF ~connected(c)
    THEN LET target == IF url # NoUrl THEN url ELSE server_url[c]
             accepted == reach /\ target = ServerUrl /\ ConnectGate(auth_data[c])
             first == sio[c] = 0 /\ regCount[c] = 0
         IN /\ sio' = [sio EXCEPT ![c] = IF @ = 0 THEN sioCount[c] + 1 ELSE @]
            /\ sioCount' = [sioCount EXCEPT ![c] = IF sio[c] = 0 THEN @ + 1 ELSE @]
            /\ regCount' = [regCount EXCEPT ![c] = IF first THEN @ + 1 ELSE @]
            /\ cliHandlers' = [cliHandlers EXCEPT
                                 ![c] = IF first THEN ClientCallbacks ELSE @]
            /\ server_url' = [server_url EXCEPT ![c] = target]
            /\ attempts' = [attempts EXCEPT ![c] = @ + 1]
            /\ sioConnected' = [sioConnected EXCEPT ![c] = accepted]
            /\ sessions' = IF accepted THEN sessions \cup {c} ELSE sessions
            /\ result' = [[x \in Clients |-> NoResult] EXCEPT ![c] =
                   Result("connect", url,
                          IF accepted THEN "return" ELSE "ConnectionError",
                          FALSE, NoneRsp, NoExc)]
    ELSE /\ UNCHANGED <<sio, sioCount, regCount, cliHandlers, server_url, attempts,
                        sioConnected, sessions>>
         /\ result' = [[x \in Clients |-> NoResult] EXCEPT ![c] =
                Result("connect", url, "return", TRUE, NoneRsp, NoExc)]

\* connect._connect; reach: whether sio.connect gets through to a listener.
\* A refused or failed sio.connect raises a SocketIOError, which
\* handle_socketio_error turns into ConnectionError.
connect(c, url, reach) ==
    IF ~connected(c)
    THEN LET target == IF url # NoUrl THEN url ELSE server_url[c]
             accepted == reach /\ target = ServerUrl /\ ConnectGate(auth_data[c])
         IN /\ sio' = [sio EXCEPT ![c] = IF @ = 0 THEN sioCount[c] + 1 ELSE @]
            /\ sioCount' = [sioCount EXCEPT ![c] = IF sio[c] = 0 THEN @ + 1 ELSE @]
            /\ regCount' = [regCount EXCEPT ![c] = IF sio[c] = 0 THEN @ + 1 ELSE @]
            /\ cliHandlers' = [cliHandlers EXCEPT
                                 ![c] = IF sio[c] = 0 THEN ClientCallbacks ELSE @]
            /\ server_url' = [server_url EXCEPT ![c] = target]
            /\ attempts' = [attempts EXCEPT ![c] = @ + 1]
            /\ sioConnected' = [sioConnected EXCEPT ![c] = accepted]
            /\ sessions' = IF accepted THEN sessions \cup {c} ELSE sessions
            /\ result' = [[x \in Clients |-> NoResult] EXCEPT ![c] =
                   Result("connect", url,
                          IF accepted THEN "return" ELSE "ConnectionError",
                          FALSE, NoneRsp, NoExc)]
    ELSE /\ UNCHANGED <<sio, sioCount, regCount, cliHandlers, server_url, attempts,
                        sioConnected, sessions>>
         /\ result' = [[x \in Clients |-> NoResult] EXCEPT ![c] =
                Result("connect", url, "return", TRUE, NoneRsp, NoExc)]

\* ClientBase.connect(url)
Connect(c, url, reach) ==
    /\ pc[c] = "idle"
    /\ connected(c) \/ attempts[c] < MaxConnect
    /\ connect(c, url, reach)
    /\ UNCHANGED <<auth_key, auth_data, rsp, rsp_event, pc, hpc, toServer, toClient,
                   nmsg>>
    /\ NoHandlerRuns

\* ClientBase.disconnect without  self.sio = None
disconnect_keep_sio(c) ==
    IF connected(c)
    THEN /\ sioConnected' = [sioConnected EXCEPT ![c] = FALSE]
         /\ CloseSession(c)
         /\ UNCHANGED <<sio, cliHandlers>>
    ELSE UNCHANGED <<sio, sioConnected, cliHandlers, sessions, toServer, toClient>>

\* ClientBase.disconnect
disconnect(c) ==
    IF connected(c)
    THEN /\ sio' = [sio EXCEPT ![c] = 0]
         /\ sioConnected' = [sioConnected EXCEPT ![c] = FALSE]
         /\ cliHandlers' = [cliHandlers EXCEPT ![c] = {}]
         /\ CloseSession(c)
    ELSE UNCHANGED <<sio, sioConnected, cliHandlers, sessions, toServer, toClient>>

Disconnect(c) ==
    /\ pc[c] = "idle"
    /\ disconnect(c)
    /\ result' = [[x \in Clients |-> NoResult] EXCEPT ![c] =
           Result("disconnect", "", "return", connected(c), NoneRsp, NoExc)]
    /\ UNCHANGED <<auth_key, auth_data, server_url, rsp, rsp_event, pc, hpc, nmsg,
                   attempts, sioCount, regCount>>
    /\ NoHandlerRuns

\* the transport loses the connection (the disconnect events of both
\* connection_callbacks); the socketio.Client object stays
Drop(c) ==
    /\ connected(c)
    /\ sioConnected' = [sioConnected EXCEPT ![c] = FALSE]
    /\ CloseSession(c)
    /\ UNCHANGED <<auth_key, auth_data, server_url, sio, cliHandlers, rsp, rsp_event,
                   pc, hpc, nmsg, attempts, sioCount, regCount>>
    /\ NoHandlerRuns
    /\ NoCallEnds

\* ------------------------------------------------------------- the server
\* what a handler function does with a request
HandlerOutcomes ==
    {[kind |-> "return", cls |-> "", msg |-> "", data |-> d] : d \in HandlerData}
    \cup {[kind |-> "raise", cls |-> x, msg |-> m, data |-> NoData] :
             x \in DomainErrors \cup OtherErrors \cup BaseOnlyErrors, m \in Messages}

\* except Exception as e
IsException(cls) == cls \notin BaseOnlyErrors

\* one wire message of self.sio.emit(event, data=..., to=sid)
Emit(to, chan, d) == [to |-> to, chan |-> chan, d |-> d]

\* the wrapper of handle_request: the events it emits, when the handler func
\* ends as o.  No emit when Req.from_dict raises TypeError and when the
\* handler raises what  except Exception  does not catch.
handle_request_wrapper(sid, data, o) ==
    LET req == Req_from_dict(data)
        made == IF o.kind = "return"
                THEN [status |-> SUCCESS, event |-> NoneEvent, data |-> o.data]
                ELSE [status |-> ERROR, event |-> NoneEvent,
                      data |-> ExceptionDict(o.cls, o.msg)]
        r == [made EXCEPT !.event = get_rsp_event(req.event)]
    IN IF ~req.ok THEN <<>>
       ELSE IF o.kind = "raise" /\ ~IsException(o.cls) THEN <<>>
       ELSE <<Emit(sid, r.event, Rsp_to_dict(r))>>

HandledAs(data, o) ==
    IF ~Req_from_dict(data).ok THEN "decode_failed"
    ELSE IF o.kind = "raise" /\ ~IsException(o.cls) THEN "crashed"
    ELSE "handled"

\* the server receives the request event m of an open session and runs the
\* handler registered for its channel
ServerReceive(m, o) ==
    /\ m \in toServer
    /\ m.sid \in sessions
    /\ \E n \in ServerCallbacks : m.chan = get_req_event(n)
    /\ LET out == handle_request_wrapper(m.sid, m.d, o)
           req == Req_from_dict(m.d)
       IN /\ toServer' = toServer \ {m}
          /\ toClient' = toClient \cup
                 {[rid |-> m.rid, to |-> out[i].to, chan |-> out[i].chan,
                   d |-> out[i].d,
                   origin |-> [rid |-> m.rid, sid |-> m.sid, event |-> req.event,
                               outcome |-> o]] :
                  i \in 1..Len(out)}
          /\ handled' = [st |-> HandledAs(m.d, o), sid |-> m.sid, chan |-> m.chan,
                         keys |-> m.d.keys, event |-> req.event,
                         emits |-> [i \in 1..Len(out) |-> <<out[i].to, out[i].chan>>]]
    /\ UNCHANGED <<auth_key, auth_data, sessions, nmsg, clientVars>>
    /\ NoCallEnds

\* ----------------------------------------------------- the client, requests
\* ClientBase.make_request under handle_socketio_error.  self.sio is None:
\* AttributeError, which is no SocketIOError; a transport that is not
\* connected: sio.emit raises a SocketIOError, re-raised as ConnectionError.
MakeRequest(c, event, data) ==
    /\ pc[c] = "idle"
    /\ nmsg < MaxMsg
    /\ IF sio[c] = 0
       THEN /\ result' = [[x \in Clients |-> NoResult] EXCEPT ![c] =
                   Result("make_request", "", "AttributeError", connected(c),
                          NoneRsp, NoExc)]
            /\ UNCHANGED <<toServer, nmsg>>
       ELSE IF ~sioConnected[c]
       THEN /\ result' = [[x \in Clients |-> NoResult] EXCEPT ![c] =
                   Result("make_request", "", "ConnectionError", connected(c),
                          NoneRsp, NoExc)]
            /\ UNCHANGED <<toServer, nmsg>>
       ELSE /\ nmsg' = nmsg + 1
            /\ toServer' = toServer \cup
                   {[rid |-> nmsg + 1, sid |-> c, chan |-> get_req_event(event),
                     d |-> Req_to_dict(event, data)]}
            /\ result' = [[x \in Clients |-> NoResult] EXCEPT ![c] =
                   Result("make_request", "", "return", connected(c), NoneRsp, NoExc)]
    /\ UNCHANGED <<auth_key, auth_data, sessions, toClient, clientVars>>
    /\ NoHandlerRuns

\* the wrapper of handle_response without  value[:-4]
handle_response_wrapper_keep(data) == Rsp_from_dict(data)

\* the wrapper of handle_response: the Rsp it stores, ok = FALSE when it
\* raises (None[:-4], or Rsp.from_dict raising TypeError)
handle_response_wrapper(data) ==
    IF "event" \in data.keys /\ data.event = NoneEvent THEN NoRsp
    ELSE Rsp_from_dict([data EXCEPT !.event = Strip4(@)])

\* a handler that keeps the Response in self.rsp while the wake signal is set
store_rsp_if_consumed(c, r) ==
    rsp' = IF rsp_event[c] THEN rsp ELSE [rsp EXCEPT ![c] = r]

\* self.rsp = Rsp.from_dict(rsp_data)
store_rsp(c, r) == rsp' = [rsp EXCEPT ![c] = r]

\* the transport hands the response event m to the client's handler, which
\* runs up to  self.rsp = Rsp.from_dict(rsp_data)  (lines 199-200); the
\* transport runs one handler at a time
ClientReceive(c, m) ==
    /\ m \in toClient
    /\ m.to = c
    /\ connected(c)
    /\ hpc[c] = "idle"
    /\ \E n \in cliHandlers[c] : m.chan = get_rsp_event(n)
    /\ toClient' = toClient \ {m}
    /\ LET got == handle_response_wrapper(m.d)
       IN IF got.ok
          THEN /\ store_rsp(c, [status |-> got.status, event |-> got.event,
                                 data |-> got.data, keys |-> m.d.keys,
                                 origin |-> m.origin])
               /\ hpc' = [hpc EXCEPT ![c] = "stored"]
          ELSE UNCHANGED <<rsp, hpc>>
    /\ UNCHANGED <<auth_key, auth_data, sessions, toServer, nmsg, server_url, sio,
                   sioConnected, cliHandlers, rsp_event, pc, attempts, sioCount,
                   regCount>>
    /\ NoHandlerRuns
    /\ NoCallEnds

\* the handler goes on to  self.rsp_event.set()  (line 201)
ClientSignal(c) ==
    /\ hpc[c] = "stored"
    /\ rsp_event' = [rsp_event EXCEPT ![c] = TRUE]
    /\ hpc' = [hpc EXCEPT ![c] = "idle"]
    /\ UNCHANGED <<auth_key, auth_data, sessions, toServer, toClient, nmsg, server_url,
                   sio, sioConnected, cliHandlers, rsp, pc, attempts, sioCount,
                   regCount>>
    /\ NoHandlerRuns
    /\ NoCallEnds

\* ClientBase._exception_map, as build_exception_map gives it for the module
\* of the domain errors
exception_map == DomainErrors

\* verify_response that takes every error name as mapped
verify_response_all_mapped(r) ==
    IF r.status # SUCCESS
    THEN IF r.data.kind # "exception"
         THEN [out |-> "raise", exc |-> [NoExc EXCEPT !.cls = "TypeError"]]
         ELSE [out |-> "raise",
               exc |-> [cls |-> r.data.v[1], message |-> <<r.data.v[2]>>,
                        tb |-> SubSeq(r.data.v, 3, Len(r.data.v)),
                        event |-> r.event]]
    ELSE [out |-> "return", exc |-> NoExc]

\* ClientBase.verify_response: how it ends, and the error it raises
verify_response(r) ==
    IF r.status # SUCCESS
    THEN IF r.data.kind # "exception"
         THEN [out |-> "raise", exc |-> [NoExc EXCEPT !.cls = "TypeError"]]
         ELSE LET name == r.data.v[1]
                  message == r.data.v[2]
                  tb == SubSeq(r.data.v, 3, Len(r.data.v))
              IN IF name \in exception_map
                 THEN [out |-> "raise",
                       exc |-> [cls |-> name, message |-> <<message>>, tb |-> tb,
                                event |-> r.event]]
                 ELSE [out |-> "raise",
                       exc |-> [cls |-> "ResponseError",
                                message |-> <<"Error: ", name, ", message: ", message,
                                              ", event: ">> \o r.event,
                                tb |-> tb, event |-> <<>>]]
    ELSE [out |-> "return", exc |-> NoExc]

\* _get_response, timeout branch, raising without self.disconnect()
get_response_timeout_no_disconnect(c) ==
    /\ UNCHANGED <<sio, sioConnected, cliHandlers, sessions, toServer, toClient>>
    /\ result' = [[x \in Clients |-> NoResult] EXCEPT ![c] =
           Result("get_response", "", "ResponseTimeoutError", connected(c),
                  NoneRsp, NoExc)]

\* _get_response, timeout branch: try: self.disconnect() finally: raise
get_response_timeout(c) ==
    /\ disconnect(c)
    /\ result' = [[x \in Clients |-> NoResult] EXCEPT ![c] =
           Result("get_response", "", "ResponseTimeoutError", connected(c),
                  NoneRsp, NoExc)]

\* _get_and_verify_response up to the is_set() test of _get_response (lines
\* 215-216): the wait has ended, by the wake signal or by the timeout, and the
\* test finds the wake signal set or clear
GetAndVerifyResponse(c) ==
    /\ pc[c] = "idle"
    /\ pc' = [pc EXCEPT ![c] = IF rsp_event[c] THEN "woken" ELSE "timedout"]
    /\ UNCHANGED <<auth_key, auth_data, sessions, toServer, toClient, nmsg, server_url,
                   sio, sioConnected, cliHandlers, rsp, rsp_event, hpc, attempts,
                   sioCount, regCount>>
    /\ NoHandlerRuns
    /\ NoCallEnds

\* _get_response that leaves the wake signal as it is
rsp_event_keep(c) == UNCHANGED rsp_event

\* self.rsp_event.clear()
rsp_event_clear(c) == rsp_event' = [rsp_event EXCEPT ![c] = FALSE]

\* _get_response, line 221
GetResponseClear(c) ==
    /\ pc[c] = "woken"
    /\ rsp_event_clear(c)
    /\ pc' = [pc EXCEPT ![c] = "cleared"]
    /\ UNCHANGED <<auth_key, auth_data, sessions, toServer, toClient, nmsg, server_url,
                   sio, sioConnected, cliHandlers, rsp, hpc, attempts, sioCount,
                   regCount>>
    /\ NoHandlerRuns
    /\ NoCallEnds

\* _get_response, line 222:  return self.rsp,  and then verify_response(rsp)
\* and  return rsp  of _get_and_verify_response
GetResponseReturn(c) ==
    /\ pc[c] = "cleared"
    /\ LET v == verify_response(rsp[c])
       IN result' = [[x \in Clients |-> NoResult] EXCEPT ![c] =
              Result("get_response", "", v.out, connected(c), rsp[c], v.exc)]
    /\ pc' = [pc EXCEPT ![c] = "idle"]
    /\ UNCHANGED <<auth_key, auth_data, sessions, toServer, toClient, nmsg, server_url,
                   sio, sioConnected, cliHandlers, rsp, rsp_event, hpc, attempts,
                   sioCount, regCount>>
    /\ NoHandlerRuns

\* the timeout branch of _get_response, lines 217-220
GetResponseTimeout(c) ==
    /\ pc[c] = "timedout"
    /\ get_response_timeout(c)
    /\ pc' = [pc EXCEPT ![c] = "idle"]
    /\ UNCHANGED <<auth_key, auth_data, server_url, rsp, rsp_event, hpc, nmsg, attempts,
                   sioCount, regCount>>
    /\ NoHandlerRuns

\* ------------------------------------------------ peers that send raw events
\* a request payload a peer can emit on <n>_req without Req.to_dict: one with
\* no event, one whose event is not n
RawRequests(n) ==
    {Dict({"data"}, "", <<>>, IntData)}
    \cup {Dict({"event", "data"}, "", e, NoData) : e \in (Events \cup OtherEvents) \ {n}}

\* a response payload that lacks a field of the envelope
RawResponses(n) ==
    {Dict({"event", "data"}, "", get_rsp_event(n), IntData),
     Dict({"status", "data"}, SUCCESS, <<>>, IntData)}

\* another client of the server connects: its session is admitted when the
\* connect handler lets it in
PeerConnect(p, auth) ==
    /\ p \notin sessions
    /\ ConnectGate(auth)
    /\ sessions' = sessions \cup {p}
    /\ UNCHANGED <<auth_key, auth_data, toServer, toClient, nmsg, clientVars>>
    /\ NoHandlerRuns
    /\ NoCallEnds

\* an admitted session emits a raw payload on the channel <n>_req
RawRequest(p, n, d) ==
    /\ p \in sessions
    /\ nmsg < MaxMsg
    /\ nmsg' = nmsg + 1
    /\ toServer' = toServer \cup
           {[rid |-> nmsg + 1, sid |-> p, chan |-> get_req_event(n), d |-> d]}
    /\ UNCHANGED <<auth_key, auth_data, sessions, toClient, clientVars>>
    /\ NoHandlerRuns
    /\ NoCallEnds

\* the peer of a connected client emits a raw payload on the channel <n>_rsp
RawResponse(c, n, d) ==
    /\ connected(c)
    /\ nmsg < MaxMsg
    /\ nmsg' = nmsg + 1
    /\ toClient' = toClient \cup
           {[rid |-> nmsg + 1, to |-> c, chan |-> get_rsp_event(n), d |-> d,
             origin |-> NoOrigin]}
    /\ UNCHANGED <<auth_key, auth_data, sessions, toServer, clientVars>>
    /\ NoHandlerRuns
    /\ NoCallEnds

\* --------------------------------------------- the server's certificate
\* generate_selfsigned_cert(hostname): a new key and a certificate for it
\* whose SAN is [DNSName(hostname)]; n stands for the key and the serial number
generate_selfsigned_cert(h, n) ==
    [cert |-> [kind |-> "cert", san |-> {h}, id |-> n],
     key |-> [KeyFile EXCEPT !.id = n]]

\* generate_new_cert(certfile_path, keyfile_path, hostname)
generate_new_cert(h) ==
    LET pair == generate_selfsigned_cert(h, nservers + 1)
    IN /\ certfile' = pair.cert
       /\ keyfile' = pair.key

\* get_dns_names_from_cert: the DNS names of the SAN extension; ok = FALSE
\* when load_pem_x509_certificate or get_extension_for_class raises
get_dns_names_from_cert(pem) == [ok |-> pem.kind = "cert", names |-> pem.san]

\* ServerBase.__init__ from line 262 on, for the hostname h, the paths cpath and
\* the flag g: the files it leaves and how it ends
ServerBase_init(h, cpath, g) ==
    IF ~g
    THEN /\ UNCHANGED <<certfile, keyfile>>
         /\ built' = TRUE
         /\ sresult' = SResult("init", "return")
    ELSE IF cpath = NoPath
    THEN /\ UNCHANGED <<certfile, keyfile>>
         /\ built' = FALSE
         /\ sresult' = SResult("init", "AttributeError")
    ELSE IF certfile.kind = "absent" \/ keyfile.kind = "absent"
    THEN /\ generate_new_cert(h)
         /\ built' = TRUE
         /\ sresult' = SResult("init", "return")
    ELSE LET dns_names == get_dns_names_from_cert(certfile)
         IN IF ~dns_names.ok
            THEN /\ UNCHANGED <<certfile, keyfile>>
                 /\ built' = FALSE
                 /\ sresult' = SResult("init", "ValueError")
            ELSE IF h \notin dns_names.names
            THEN /\ generate_new_cert(h)
                 /\ built' = TRUE
                 /\ sresult' = SResult("init", "return")
            ELSE /\ UNCHANGED <<certfile, keyfile>>
                 /\ built' = TRUE
                 /\ sresult' = SResult("init", "return")

\* a ServerBase is constructed, while no server of the process runs
ServerInit(h, cpath, g) ==
    /\ spc = "idle"
    /\ tpc \in {"none", "ended"}
    /\ nservers < MaxServers
    /\ nservers' = nservers + 1
    /\ hostname' = h
    /\ certfile_path' = cpath
    /\ generate_cert' = g
    /\ ServerBase_init(h, cpath, g)
    /\ server' = "None"
    /\ UNCHANGED <<listening, stopping, tpc, exc, spc>>
    /\ UNCHANGED <<protocolVars, callerVars>>

\* ------------------------------------------------ the server's start and stop
\* ServerBase.started, reading the handle alone
started_handle_only == server # "None"

\* ServerBase.started
started == server # "None" /\ listening

\* the loop of join() has ended, without the test of its condition
join_skipped == TRUE

\* the loop of join() has ended:  not (self.server and self.server.started)
join_ended == ~(server # "None" /\ listening)

\* whether the listener can load the certificate and key it is given: the
\* files are there and are a certificate and a key
CanServe ==
    \/ certfile_path = NoPath
    \/ certfile.kind \in {"cert", "cert_nosan"} /\ keyfile.kind = "key"

\* start() up to the loop: exc = None, the start_server thread is started
Start ==
    /\ spc = "idle"
    /\ built
    /\ tpc \in {"none", "ended"}
    /\ exc' = NoError
    /\ tpc' = "prepare"
    /\ spc' = "start"
    /\ NoServerCallEnds
    /\ UNCHANGED <<hostname, certfile_path, generate_cert, certfile, keyfile, nservers,
                   built, server, listening, stopping>>
    /\ UNCHANGED <<protocolVars, callerVars>>

\* start_server, lines 294-310: the CORS origins with get_external_ip_address(),
\* socketio.Server, WSGIApp and the callbacks; ok = FALSE when one of them
\* raises an Exception
ThreadPrepare(ok) ==
    /\ tpc = "prepare"
    /\ IF ok
       THEN tpc' = "make" /\ exc' = exc
       ELSE tpc' = "ended" /\ exc' = "RequestException"
    /\ NoServerCallEnds
    /\ UNCHANGED <<hostname, certfile_path, generate_cert, certfile, keyfile, nservers,
                   built, server, listening, stopping, spc>>
    /\ UNCHANGED <<protocolVars, callerVars>>

\* start_server, lines 312-316: self.server = pywsgi.WSGIServer(...)
ThreadMakeServer ==
    /\ tpc = "make"
    /\ server' = "obj"
    /\ listening' = FALSE
    /\ stopping' = FALSE
    /\ tpc' = "serve"
    /\ NoServerCallEnds
    /\ UNCHANGED <<hostname, certfile_path, generate_cert, certfile, keyfile, nservers,
                   built, exc, spc>>
    /\ UNCHANGED <<protocolVars, callerVars>>

\* start_server, line 317: self.server.serve_forever() binds the listener and
\* serves, or raises (the address is in use, the certificate does not load);
\* free: whether the address can be bound
ThreadServe(free) ==
    /\ tpc = "serve"
    /\ IF server = "None"
       THEN tpc' = "ended" /\ exc' = "AttributeError" /\ listening' = listening
       ELSE IF free /\ CanServe
       THEN tpc' = "serving" /\ exc' = exc /\ listening' = TRUE
       ELSE tpc' = "ended" /\ exc' = "OSError" /\ listening' = listening
    /\ NoServerCallEnds
    /\ UNCHANGED <<hostname, certfile_path, generate_cert, certfile, keyfile, nservers,
                   built, server, stopping, spc>>
    /\ UNCHANGED <<protocolVars, callerVars>>

\* start_server, line 318: serve_forever() returns once the listener stopped
ThreadClosed ==
    /\ tpc = "serving"
    /\ ~listening
    /\ tpc' = "ended"
    /\ NoServerCallEnds
    /\ UNCHANGED <<hostname, certfile_path, generate_cert, certfile, keyfile, nservers,
                   built, server, listening, stopping, exc, spc>>
    /\ UNCHANGED <<protocolVars, callerVars>>

\* the loop of start(), lines 326-329: it returns when started, raises exc
\* when exc is set, and waits otherwise
StartPoll ==
    /\ spc = "start"
    /\ started \/ exc # NoError
    /\ spc' = "idle"
    /\ sresult' = SResult("start", IF started THEN "return" ELSE exc)
    /\ UNCHANGED <<hostname, certfile_path, generate_cert, certfile, keyfile, nservers,
                   built, server, listening, stopping, tpc, exc>>
    /\ UNCHANGED <<protocolVars, callerVars>>

\* close(), line 337: self.server.close() tells the listener to stop; with
\* self.server None it raises AttributeError
Close ==
    /\ spc = "idle"
    /\ built
    /\ IF server = "None"
       THEN /\ sresult' = SResult("close", "AttributeError")
            /\ UNCHANGED <<stopping, spc>>
       ELSE /\ stopping' = listening
            /\ spc' = "join"
            /\ NoServerCallEnds
    /\ UNCHANGED <<hostname, certfile_path, generate_cert, certfile, keyfile, nservers,
                   built, server, listening, tpc, exc>>
    /\ UNCHANGED <<protocolVars, callerVars>>

\* the listener that was told to stop has stopped
ListenerStops ==
    /\ stopping
    /\ listening
    /\ listening' = FALSE
    /\ stopping' = FALSE
    /\ NoServerCallEnds
    /\ UNCHANGED <<hostname, certfile_path, generate_cert, certfile, keyfile, nservers,
                   built, server, tpc, exc, spc>>
    /\ UNCHANGED <<protocolVars, callerVars>>

\* close(), lines 338-339: join() has ended, self.server = None
CloseJoin ==
    /\ spc = "join"
    /\ join_ended
    /\ server' = "None"
    /\ spc' = "idle"
    /\ sresult' = SResult("close", "return")
    /\ UNCHANGED <<hostname, certfile_path, generate_cert, certfile, keyfile, nservers,
                   built, listening, stopping, tpc, exc>>
    /\ UNCHANGED <<protocolVars, callerVars>>

\* the step is one of the protocol alone: no ServerBase call, no caller named
Plain == UNCHANGED <<serverVars, callerVars>>

Next ==
    \/ \E c \in Clients, url \in Urls \cup {NoUrl}, reach \in BOOLEAN :
           Connect(c, url, reach) /\ Plain
    \/ \E c \in Clients : Disconnect(c) /\ Plain
    \/ \E c \in Clients : Drop(c) /\ Plain
    \/ \E c \in Clients, event \in Events, data \in RequestData :
           MakeRequest(c, event, data) /\ Plain
    \/ \E m \in toServer, o \in HandlerOutcomes : ServerReceive(m, o) /\ Plain
    \/ \E c \in Clients, m \in toClient : ClientReceive(c, m) /\ Plain
    \/ \E c \in Clients : ClientSignal(c) /\ Plain
    \/ \E c \in Clients : GetAndVerifyResponse(c) /\ Plain
    \/ \E c \in Clients : GetResponseClear(c) /\ Plain
    \/ \E c \in Clients : GetResponseReturn(c) /\ Plain
    \/ \E c \in Clients : GetResponseTimeout(c) /\ Plain

\* the protocol between ClientBase and ServerBase, the client API called in
\* any order
Spec == Init /\ [][Next]_vars

\* peers that emit raw events
NextWire ==
    \/ Next
    \/ \E p \in Peers, auth \in AuthTokens : PeerConnect(p, auth) /\ Plain
    \/ \E p \in Peers, n \in Events :
           \E d \in RawRequests(n) : RawRequest(p, n, d) /\ Plain
    \/ \E c \in Clients, n \in Events :
           \E d \in RawResponses(n) : RawResponse(c, n, d) /\ Plain

\* the protocol with peers that do not go through Req.to_dict / Rsp.to_dict
SpecWire == Init /\ [][NextWire]_vars

\* ------------------------------------------------- the callers of a client
\* The protocol with the callers of the client API named.  A caller calls
\* make_request and then _get_and_verify_response, and issues its next request
\* only after that call has returned or raised; it connects and disconnects
\* between two such pairs.
CallerConnects(K, c, url, reach) ==
    /\ \E k \in K : waiting[k] = 0
    /\ Connect(c, url, reach)
    /\ UNCHANGED callerVars

CallerDisconnects(K, c) ==
    /\ \E k \in K : waiting[k] = 0
    /\ Disconnect(c)
    /\ UNCHANGED callerVars

\* the caller k issues a request: it waits for it when make_request returned
CallerRequests(k, c, event, data) ==
    /\ waiting[k] = 0
    /\ MakeRequest(c, event, data)
    /\ waiting' = IF result'[c].out = "return"
                  THEN [waiting EXCEPT ![k] = nmsg']
                  ELSE waiting
    /\ UNCHANGED <<getter, ret, arrived, expired>>

\* the caller k calls _get_and_verify_response for the request it issued
CallerWaits(k, c) ==
    /\ waiting[k] # 0
    /\ GetAndVerifyResponse(c)
    /\ getter' = [getter EXCEPT ![c] = k]
    /\ UNCHANGED <<waiting, ret, arrived, expired>>

\* the call of the caller inside _get_response returns a Response
CallerGets(c) ==
    /\ GetResponseReturn(c)
    /\ LET k == getter[c]
       IN /\ ret' = [ret EXCEPT ![k] = [req |-> waiting[k],
                                       rsp |-> rsp[c].origin.rid,
                                       out |-> "response"]]
          /\ waiting' = [waiting EXCEPT ![k] = 0]
    /\ getter' = [getter EXCEPT ![c] = NoCaller]
    /\ UNCHANGED <<arrived, expired>>

\* the call of the caller inside _get_response raises ResponseTimeoutError
CallerTimesOut(c) ==
    /\ GetResponseTimeout(c)
    /\ LET k == getter[c]
       IN /\ ret' = [ret EXCEPT ![k] = [req |-> waiting[k], rsp |-> 0,
                                       out |-> "timeout"]]
          /\ waiting' = [waiting EXCEPT ![k] = 0]
          /\ expired' = expired \cup {waiting[k]}
    /\ getter' = [getter EXCEPT ![c] = NoCaller]
    /\ UNCHANGED arrived

\* the handler puts the Response to a request in self.rsp
ResponseArrives(c, m) ==
    /\ ClientReceive(c, m)
    /\ arrived' = IF hpc'[c] = "stored" THEN arrived \cup {m.origin.rid} ELSE arrived
    /\ UNCHANGED <<waiting, getter, ret, expired>>

\* what the handlers do in the runs with named callers: return a number, or
\* raise a domain error
CallerOutcomes ==
    {o \in HandlerOutcomes : o.data = IntData \/ o.cls \in DomainErrors}

NextBy(K) ==
    \/ \E c \in Clients, url \in Urls \cup {NoUrl}, reach \in BOOLEAN :
           CallerConnects(K, c, url, reach) /\ UNCHANGED serverVars
    \/ \E c \in Clients : CallerDisconnects(K, c) /\ UNCHANGED serverVars
    \/ \E c \in Clients : Drop(c) /\ Plain
    \/ \E k \in K, c \in Clients, event \in Events, data \in RequestData :
           CallerRequests(k, c, event, data) /\ UNCHANGED serverVars
    \/ \E m \in toServer, o \in CallerOutcomes : ServerReceive(m, o) /\ Plain
    \/ \E c \in Clients, m \in toClient :
           ResponseArrives(c, m) /\ UNCHANGED serverVars
    \/ \E c \in Clients : ClientSignal(c) /\ Plain
    \/ \E k \in K, c \in Clients : CallerWaits(k, c) /\ UNCHANGED serverVars
    \/ \E c \in Clients : GetResponseClear(c) /\ Plain
    \/ \E c \in Clients : CallerGets(c) /\ UNCHANGED serverVars
    \/ \E c \in Clients : CallerTimesOut(c) /\ UNCHANGED serverVars

\* one caller that uses the client strictly sequentially
NextSeq == NextBy({"t1"})

SpecSeq == Init /\ [][NextSeq]_vars

\* two callers that use the same client
NextCallers == NextBy(Callers)

SpecCallers == Init /\ [][NextCallers]_vars

\* ---------------------------------------------------- the server's life
NextServer ==
    \/ \E h \in Hostnames, cpath \in {NoPath, CertPath}, g \in BOOLEAN :
           ServerInit(h, cpath, g)
    \/ Start
    \/ \E ok \in BOOLEAN : ThreadPrepare(ok)
    \/ ThreadMakeServer
    \/ \E free \in BOOLEAN : ThreadServe(free)
    \/ ThreadClosed
    \/ StartPoll
    \/ Close
    \/ ListenerStops
    \/ CloseJoin

\* a process that constructs, starts and closes servers
SpecServer == InitServer /\ [][NextServer]_vars

\* the start_server thread and the loop of start() get to run
SpecServerFair ==
    /\ InitServer
    /\ [][NextServer]_vars
    /\ WF_vars(\E ok \in BOOLEAN : ThreadPrepare(ok))
    /\ WF_vars(ThreadMakeServer)
    /\ WF_vars(\E free \in BOOLEAN : ThreadServe(free))
    /\ WF_vars(StartPoll)

\* ------------------------------------------------------------------ claims
\* the last call of _get_and_verify_response by c, when it got a Response
\* that a handler run produced
Answered(c) ==
    /\ result[c].op = "get_response"
    /\ result[c].out # "ResponseTimeoutError"
    /\ result[c].rsp.origin.outcome.kind # ""

\* C1: every run of a handle_request wrapper on a valid Request with event E,
\* whether the handler returned or raised, emitted exactly one event, to the
\* session that sent the request, on the channel E_rsp.
C1_ExactlyOneResponse ==
    handled.st \in {"handled", "crashed"} =>
        /\ Len(handled.emits) = 1
        /\ handled.emits[1] = <<handled.sid, get_rsp_event(handled.event)>>

C3_TimeoutDisconnects ==
    \A c \in Clients :
        /\ result[c].out = "ResponseTimeoutError" => ~connected(c)
        /\ result[c].op = "get_response" /\ result[c].out # "ResponseTimeoutError"
               => result[c].rsp # NoneRsp

\* a connected client ran into the timeout
C3_Witness ==
    \E c \in Clients : result[c].out = "ResponseTimeoutError" /\ result[c].pre

\* C4: when the handler of a request with event E raised T(msg), T in the
\* client's exception map, verify_response raises a T with message msg, the
\* server's traceback and event E.
C4_MappedException ==
    \A c \in Clients :
        LET o == result[c].rsp.origin.outcome
        IN Answered(c) /\ o.kind = "raise" /\ o.cls \in exception_map =>
               /\ result[c].out = "raise"
               /\ result[c].exc.cls = o.cls
               /\ result[c].exc.message = <<o.msg>>
               /\ result[c].exc.tb = TracebackOf(o.cls, o.msg)
               /\ result[c].exc.event = result[c].rsp.origin.event

\* a mapped error of a handler has reached the caller
C4_Witness ==
    \E c \in Clients :
        /\ Answered(c)
        /\ result[c].rsp.origin.outcome.cls \in exception_map
        /\ result[c].exc.cls \in exception_map

\* C5: when the handler raised an error whose name is not in the client's
\* exception map, verify_response raises ResponseError, with the name and the
\* message of the error in its message and the server's traceback attached.
C5_UnmappedException ==
    \A c \in Clients :
        LET o == result[c].rsp.origin.outcome
            e == result[c].exc
        IN Answered(c) /\ o.kind = "raise" /\ o.cls \notin exception_map =>
               /\ result[c].out = "raise"
               /\ e.cls = "ResponseError"
               /\ \E i \in 1..Len(e.message) : e.message[i] = o.cls
               /\ \E i \in 1..Len(e.message) : e.message[i] = o.msg
               /\ e.tb = TracebackOf(o.cls, o.msg)

\* an unmapped error of a handler has reached the caller
C5_Witness ==
    \E c \in Clients :
        /\ Answered(c)
        /\ result[c].rsp.origin.outcome.cls \in OtherErrors
        /\ result[c].out = "raise"

\* C6: a client whose auth token differs from the server's auth key is never
\* connected and has no session, none of its requests is on the way to or was
\* run by a handler, its connect() ends in ConnectionError, and it gets no
\* Response.
C6_AuthGate ==
    \A c \in Clients :
        auth_data[c] # auth_key =>
            /\ ~connected(c)
            /\ c \notin sessions
            /\ \A m \in toServer : m.sid # c
            /\ handled.sid # c
            /\ result[c].op = "connect" => result[c].out = "ConnectionError"
            /\ rsp[c] = NoneRsp /\ ~rsp_event[c]

\* a client with a wrong token has tried to connect to the server's url
C6_Witness ==
    \E c \in Clients :
        /\ auth_data[c] # auth_key
        /\ result[c].op = "connect"
        /\ server_url[c] = ServerUrl
        /\ sio[c] # 0

\* C7: a request payload without event and a response payload without status
\* or without event fail to decode: no handler runs on such a request, and the
\* pending slot and the wake signal never take a Response decoded from such a
\* payload.
C7_MalformedRejected ==
    /\ handled.st \in {"handled", "crashed"} => "event" \in handled.keys
    /\ \A c \in Clients :
           rsp[c] # NoneRsp => {"status", "event"} \subseteq rsp[c].keys

\* C8: make_request and _get_and_verify_response end by returning or by
\* raising an error of the taxonomy: a connection error, ResponseTimeoutError,
\* ResponseError or a registered domain error.
C8_TaxonomyOnly ==
    \A c \in Clients :
        result[c].op \in {"make_request", "get_response"} =>
            \/ result[c].out \in {"return", "ConnectionError", "ResponseTimeoutError"}
            \/ /\ result[c].out = "raise"
               /\ result[c].exc.cls \in {"ResponseError"} \cup exception_map

\* C9: connect() on a connected client makes no socketio.Client, registers no
\* handler, starts no connection and keeps the stored url, whatever url it is
\* given.
C9_ConnectIdempotent ==
    [][\A c \in Clients, url \in Urls \cup {NoUrl}, reach \in BOOLEAN :
           connected(c) /\ Connect(c, url, reach) =>
               UNCHANGED <<sio, sioCount, regCount, cliHandlers, attempts, server_url,
                           sioConnected, sessions, toServer, toClient, rsp,
                           rsp_event>>]_vars

\* connect() was given another url on a connected client
C9_Witness ==
    \E c \in Clients :
        /\ result[c].op = "connect"
        /\ result[c].pre
        /\ result[c].arg \notin {NoUrl, server_url[c]}
        /\ connected(c)

\* C10: after disconnect() the client is not connected; on a connected client
\* it closes the session and clears self.sio, on a client that is not
\* connected (never connected, or disconnected before) it changes nothing; it
\* raises no error.
C10_Disconnect ==
    [][\A c \in Clients :
           Disconnect(c) =>
               /\ ~connected(c)'
               /\ result'[c].out = "return"
               /\ connected(c) => sio'[c] = 0 /\ c \notin sessions'
               /\ ~connected(c) =>
                      UNCHANGED <<sio, sioConnected, cliHandlers, server_url, sessions,
                                  toServer, toClient, rsp, rsp_event, pc, attempts,
                                  sioCount, regCount>>]_vars

\* disconnect() has run on a connected client
C10_Witness ==
    \E c \in Clients :
        /\ result[c].op = "disconnect"
        /\ result[c].pre
        /\ sio[c] = 0
        /\ sioCount[c] > 0

C12_CloseOrder ==
    /\ [](spc = "join" => stopping \/ ~listening)
    /\ [](sresult.op = "close" /\ sresult.out = "return" =>
             server = "None" /\ ~listening)
    /\ [][server # "None" /\ server' = "None" => ~listening]_vars

\* close() has returned on a server that start() had started
C12_Witness ==
    /\ sresult.op = "close"
    /\ sresult.out = "return"
    /\ tpc = "serving"

\* C13: a run of ServerBase.__init__ with generate_cert and the paths set
\* writes a new pair exactly when a file is missing or the SAN DNS names of the
\* certificate do not contain the hostname, and leaves both files in place,
\* the certificate with the hostname in its SAN.  (A file that is no
\* certificate is left out: there is no existing certificate then.)
C13_CertEnsure ==
    [][\A h \in Hostnames :
           ServerInit(h, CertPath, TRUE) /\ certfile.kind # "junk" =>
               LET stale == \/ certfile.kind = "absent"
                            \/ keyfile.kind = "absent"
                            \/ h \notin certfile.san
                   written == certfile' # certfile \/ keyfile' # keyfile
               IN /\ written <=> stale
                  /\ certfile'.kind = "cert" /\ h \in certfile'.san
                  /\ keyfile'.kind = "key"]_vars

\* C14: with a certificate path configured the listener is bound only when
\* both files exist and the SAN of the certificate contains the hostname.
C14_NoBindWithoutCert ==
    certfile_path # NoPath /\ server # "None" /\ listening =>
        /\ certfile.kind = "cert"
        /\ keyfile.kind = "key"
        /\ hostname \in certfile.san

C16_SingleShot ==
    /\ [](\A c \in Clients :
             rsp_event[c] \/ pc[c] \in {"woken", "cleared"} => rsp[c] # NoneRsp)
    /\ [](\A c \in Clients :
             result[c].op = "get_response" =>
                 (result[c].out = "ResponseTimeoutError") # (result[c].rsp # NoneRsp))
    /\ [][\A c \in Clients :
             /\ pc[c] = "idle" /\ pc'[c] # "idle" =>
                    pc'[c] = IF rsp_event[c] THEN "woken" ELSE "timedout"
             /\ pc[c] = "woken" /\ pc'[c] # "woken" =>
                    pc'[c] = "cleared" /\ ~rsp_event'[c]
             /\ pc[c] = "cleared" /\ pc'[c] # "cleared" =>
                    result'[c].op = "get_response" /\ result'[c].rsp = rsp[c]
             /\ ~rsp_event[c] /\ rsp_event'[c] =>
                    hpc[c] = "stored" /\ hpc'[c] = "idle"]_vars

\* a _get_response has returned a Response and the wake signal is clear
C16_Witness ==
    \E c \in Clients :
        /\ result[c].op = "get_response"
        /\ result[c].rsp # NoneRsp
        /\ ~rsp_event[c]

\* C17: the handler writes self.rsp whether or not the Response in it was
\* consumed, and _get_response returns what self.rsp holds, whoever calls.
\* (The interleaving the claim speaks of is the state C17_Witness.)
C17_SlotUnprotected ==
    [][\A c \in Clients :
           /\ \A m \in toClient :
                  ResponseArrives(c, m) /\ hpc'[c] = "stored" =>
                      rsp'[c].origin = m.origin
           /\ CallerGets(c) =>
                  /\ result'[c].rsp = rsp[c]
                  /\ ret'[getter[c]].rsp = rsp[c].origin.rid]_vars

\* one caller got the Response to the other caller's request, and the other
\* caller timed out although the Response to its request had arrived
C17_Witness ==
    \E k1, k2 \in Callers :
        /\ k1 # k2
        /\ ret[k1].out = "response"
        /\ ret[k1].rsp # ret[k1].req
        /\ ret[k1].rsp = ret[k2].req
        /\ ret[k2].out = "timeout"
        /\ ret[k2].req \in arrived

\* C18: with one caller that uses the client sequentially, every Response
\* that _get_response returns is the one a handler made for the request the
\* caller issued last.
C18_Correlation ==
    \A k \in Callers : ret[k].out = "response" => ret[k].rsp = ret[k].req

\* C19: with one caller that uses the client sequentially, no _get_response
\* returns the Response to a request whose _get_response timed out, and when
\* a request is issued after a timeout the wake signal is clear.
C19_NoStaleResponse ==
    /\ \A k \in Callers : ret[k].out = "response" => ret[k].rsp \notin expired
    /\ \A c \in Clients :
           /\ result[c].op = "make_request"
           /\ result[c].out = "return"
           /\ \E k \in Callers : ret[k].out = "timeout"
           => ~rsp_event[c]

\* C20: a handle_request wrapper that ran on a request received on N_req, N
\* the name it is registered under, emitted its Response on N_rsp, whatever
\* the event in the payload.
C20_ResponseChannel ==
    handled.st = "handled" =>
        \E n \in ServerCallbacks :
            /\ handled.chan = get_req_event(n)
            /\ handled.emits[1][2] = get_rsp_event(n)

====
